---- MODULE Spec2Model ----
(***************************************************************************)
(* A model of the crawl engine of doc_compiler (src/doc_compiler/crawler.py):*)
(* WebCrawler.__init__ / setup_selenium, normalize_url, is_valid_url,      *)
(* get_page_content (static tier, rendered tier), _extract_links,          *)
(* _extract_content and the crawl() loop.                                  *)
(*                                                                         *)
(* A URL string "scheme://netloc<rest>" is the record                      *)
(* [scheme, netloc, rest], rest being the sequence of the characters that  *)
(* follow the netloc (path;params?query#fragment), so that urlparse,       *)
(* urlunparse, str.lower, str.rstrip and str.startswith are computed       *)
(* character by character as urllib.parse and str compute them.            *)
(***************************************************************************)
EXTENDS Integers, Sequences, FiniteSets, TLC

\* ------------------------------------------------------------------ bounds
\* Largest max_depth a crawler is constructed with (the smallest is -1).
MaxDepth == 2
\* Largest number of anchors (<a href>) on one served page.
MaxLinks == 2

\* --------------------------------------------------------- str operations
\* str.lower() on one character of the alphabet used by the URLs below.
lower_char(c) ==
  CASE c = "G" -> "g"
    [] c = "I" -> "i"
    [] c = "P" -> "p"
    [] OTHER -> c

\* str.lower()
lower(s) == [k \in DOMAIN s |-> lower_char(s[k])]

\* str.rstrip(c): drop every trailing c.
RECURSIVE rstrip(_, _)
rstrip(s, c) ==
  IF Len(s) > 0 /\ s[Len(s)] = c THEN rstrip(SubSeq(s, 1, Len(s) - 1), c) ELSE s

\* str.startswith(p)
startswith(s, p) == Len(p) <= Len(s) /\ SubSeq(s, 1, Len(p)) = p

\* str.find(c, start) with 1-based positions: the first k >= start with
\* s[k] = c, or 0 when there is none (Python's -1).
find(s, c, start) ==
  LET hits == {k \in DOMAIN s : k >= start /\ s[k] = c}
  IN  IF hits = {} THEN 0 ELSE CHOOSE k \in hits : \A j \in hits : k <= j

\* str.rfind(c) with 1-based positions, 0 when there is none.
rfind(s, c) ==
  LET hits == {k \in DOMAIN s : s[k] = c}
  IN  IF hits = {} THEN 0 ELSE CHOOSE k \in hits : \A j \in hits : k >= j

\* A call f(x) of Python: the argument is evaluated once, before the call.
call(f(_), x) == CHOOSE r \in {f(v) : v \in {x}} : TRUE

\* s[k:] and s[:k-1] of a 1-based position k.
after(s, k) == SubSeq(s, k + 1, Len(s))
before(s, k) == SubSeq(s, 1, k - 1)

\* ------------------------------------------------------------ urllib.parse
\* A URL string.
Url(scheme, netloc, rest) == [scheme |-> scheme, netloc |-> netloc, rest |-> rest]

\* s.split(sep, 1) at the 1-based position k of sep, or (s, "") for k = 0.
split_at(s, k) == IF k = 0 THEN <<s, <<>>>> ELSE <<before(s, k), after(s, k)>>

\* urllib.parse._splitparams: the params start at the first ";" of the last
\* path segment.
splitparams(p) ==
  split_at(p, IF rfind(p, "/") > 0 THEN find(p, ";", rfind(p, "/")) ELSE find(p, ";", 1))

\* urllib.parse.urlsplit past the netloc: the fragment is what follows the
\* first "#", the query what follows the first "?" of the rest.
split_query(url, pf, pq) ==
  [scheme |-> url.scheme, netloc |-> url.netloc, path |-> pq[1], query |-> pq[2],
   fragment |-> pf[2]]
split_fragment(url, pf) == split_query(url, pf, split_at(pf[1], find(pf[1], "?", 1)))
urlsplit(url) == split_fragment(url, split_at(url.rest, find(url.rest, "#", 1)))

\* urllib.parse.urlparse: urlsplit, and the params split off the path (http,
\* https and ftp are all in uses_params).
with_params(sp, pp) ==
  [scheme |-> sp.scheme, netloc |-> sp.netloc, path |-> pp[1], params |-> pp[2],
   query |-> sp.query, fragment |-> sp.fragment]
split_path(sp) ==
  with_params(sp, IF find(sp.path, ";", 1) = 0 THEN <<sp.path, <<>>>>
                  ELSE splitparams(sp.path))
urlparse(url) == call(split_path, call(urlsplit, url))

\* urllib.parse.urlunparse (ParseResult.geturl): empty params, query and
\* fragment leave no ";", "?" or "#" behind, and a non-empty path gets a
\* leading "/" after a netloc.
joined(u, sep, part) == IF part # <<>> THEN u \o <<sep>> \o part ELSE u
rooted(u) == IF u # <<>> /\ u[1] # "/" THEN <<"/">> \o u ELSE u
urlunparse(p) ==
  Url(p.scheme, p.netloc,
      joined(joined(rooted(joined(p.path, ";", p.params)), "?", p.query),
             "#", p.fragment))

\* urllib.parse.urldefrag, the url part of its result: a URL without "#" is
\* returned as it is, any other is parsed and rebuilt without the fragment.
urldefrag(url) ==
  IF find(url.rest, "#", 1) = 0 THEN url
  ELSE urlunparse([urlparse(url) EXCEPT !.fragment = <<>>])

\* ---------------------------------------------------------- normalize_url
\* parsed._replace(path=parsed.path.lower().rstrip("/"), fragment="").geturl()
replace_path(parsed) ==
  urlunparse([parsed EXCEPT !.path = rstrip(lower(parsed.path), "/"),
                            !.fragment = <<>>])

\* WebCrawler.normalize_url
normalize_url(url) == call(replace_path, call(urlparse, call(urldefrag, url)))

\* -------------------------------------------------------- the modelled web
DocsHost == "docs.example.com"
OtherHost == "other.com"

\* The entry URL the crawler is constructed with: https://docs.example.com/g/
GuideUrl == Url("https", DocsHost, <<"/", "g", "/">>)
EntryUrls == {GuideUrl}

\* The href attributes an anchor of a served page can carry: an href string
\* is a URL reference, held like a URL (scheme and netloc "" when absent).
IntroHref == Url("", "", <<"/", "g", "/", "i">>)                            \* /g/i
IntroVariant == Url("https", DocsHost, <<"/", "G", "/", "I", "/", "#", "f">>) \* https://docs.example.com/G/I/#f
ParamsHref == Url("https", DocsHost, <<"/", "g", "/", ";", "P", "/">>)      \* https://docs.example.com/g/;P/
OtherX == Url("https", OtherHost, <<"/", "x">>)                             \* https://other.com/x
OtherGuideX == Url("https", OtherHost, <<"/", "g", "/", "x">>)              \* https://other.com/g/x
Unparseable == Url("http", "[", <<>>)                                       \* http://[
Hrefs == {IntroHref, IntroVariant, GuideUrl, ParamsHref, OtherX, OtherGuideX, Unparseable}

\* The anchors of one page, in document order.
HrefLists == UNION {[1..n -> Hrefs] : n \in 0..MaxLinks}

\* The page of the guide scenario: https://docs.example.com/g/ links to /g/i,
\* to https://other.com/x and to itself.
GuideAnchors == <<IntroHref, OtherX, GuideUrl>>

\* The documents a server or the renderer can hand back, by what the parsers
\* find in them: the <title> element (absent, present without a string,
\* whitespace only, text), the first <h1> (absent, whitespace only, text),
\* whether trafilatura extracts text from the markup as served (structured)
\* and from the tree stripped of nav/footer/header/script/style (cleaned),
\* whether the p/h1..h6/li/article elements hold text (tags), whether the body
\* holds text (body), and whether the anchors sit inside a nav, footer or
\* header element (nav_links).
Doc(title, h1, structured, cleaned, tags, body, nav_links) ==
  [title |-> title, h1 |-> h1, structured |-> structured, cleaned |-> cleaned,
   tags |-> tags, body |-> body, nav_links |-> nav_links]

Docs ==
  { Doc("text",     "text",   TRUE,  TRUE,  TRUE,  TRUE,  FALSE),
    Doc("absent",   "absent", TRUE,  TRUE,  TRUE,  TRUE,  FALSE),
    Doc("nostring", "text",   TRUE,  TRUE,  TRUE,  TRUE,  FALSE),
    Doc("blank",    "absent", TRUE,  FALSE, TRUE,  TRUE,  FALSE),
    Doc("text",     "absent", FALSE, TRUE,  TRUE,  TRUE,  TRUE),
    Doc("nostring", "text",   FALSE, FALSE, TRUE,  TRUE,  FALSE),
    Doc("absent",   "blank",  FALSE, FALSE, TRUE,  TRUE,  FALSE),
    Doc("absent",   "absent", FALSE, FALSE, FALSE, TRUE,  FALSE),
    Doc("text",     "absent", FALSE, FALSE, FALSE, FALSE, FALSE) }

\* How the static tier's network calls can end: requests.get raises, or it
\* succeeds and trafilatura.fetch_url has or has not downloaded the document.
\* (With requests.get raising, and with nothing downloaded and a document
\* trafilatura extracts nothing from, the other choices change nothing.)
PlainDoc == Doc("text", "absent", FALSE, FALSE, FALSE, FALSE, FALSE)
StaticResponses ==
  {[get |-> "RequestException", downloaded |-> FALSE, doc |-> PlainDoc]}
  \cup {[get |-> "ok", downloaded |-> TRUE, doc |-> d] : d \in Docs}
  \cup {[get |-> "ok", downloaded |-> FALSE, doc |-> d] : d \in {e \in Docs : e.structured}}

\* How the renderer can end: driver.get or the wait raises, or the page
\* source is one of the documents.
RenderedResponses ==
  {[render |-> "WebDriverException", doc |-> PlainDoc]}
  \cup {[render |-> "ok", doc |-> d] : d \in Docs}

\* Python's None, and the truth value of a str or None.
None == "<None>"
Truthy(x) == x # None /\ x # ""

\* The text of every <title> and <h1> that holds text. It is the string the
\* code falls back to for a page without a title, so that a Page is the same
\* record whichever way its title was found.
TitleText == "Untitled Page"

\* urlsplit raises ValueError ("Invalid IPv6 URL") on a netloc with an
\* unmatched bracket; every other URL of the model parses.
parse_raises(url) == url.netloc = "["

\* urllib.parse.uses_relative, as far as the model's schemes go.
uses_relative == {"", "ftp", "http", "https"}

\* urllib.parse.urljoin(base, href), for the references of Hrefs: absolute
\* URLs, absolute-path references without dot segments, and references that
\* are empty or hold a query or fragment only.
joined_parts(base, href, b, p, scheme) ==
  IF href = Url("", "", <<>>) THEN base
  ELSE IF scheme # base.scheme \/ scheme \notin uses_relative THEN href
  ELSE urlunparse(
         IF href.netloc # "" THEN [p EXCEPT !.scheme = scheme]
         ELSE IF p.path = <<>> /\ p.params = <<>>
           THEN [scheme |-> scheme, netloc |-> base.netloc, path |-> b.path,
                 params |-> b.params,
                 query |-> IF p.query = <<>> THEN b.query ELSE p.query,
                 fragment |-> p.fragment]
         ELSE [p EXCEPT !.scheme = scheme, !.netloc = base.netloc])
urljoin(base, href) ==
  joined_parts(base, href, urlparse(base), urlparse(href),
               IF href.scheme = "" THEN base.scheme ELSE href.scheme)

\* ------------------------------------------------------------------- state
VARIABLES
  entry_url,           \* self.entry_url
  max_depth,           \* self.max_depth
  logger,              \* whether self.logger has been assigned
  driver,              \* self.driver: "unset", "live", "none" (None), "quit"
  pc,                  \* where the run stands
  to_visit,            \* crawl(): the queue of (url, depth)
  normalized_visited,  \* crawl(): the set of normalized URLs
  visited_urls,        \* self.visited_urls
  pages,               \* crawl(): the result list
  cur,                 \* crawl(): url, depth of the target being processed
  result,              \* crawl(): title, content, links of get_page_content
  tiers,               \* history: what each tier of the current fetch did
  fetch_log,           \* history: the (url, depth) get_page_content was called with
  chrome,              \* history: how webdriver.Chrome(...) ended
  quits,               \* history: number of driver.quit() calls
  site,                \* the web the crawler runs against
  probe                \* calls of normalize_url made on their own: arguments, results

vars == <<entry_url, max_depth, logger, driver, pc, to_visit, normalized_visited,
          visited_urls, pages, cur, result, tiers, fetch_log, chrome, quits, site, probe>>

Target(url, depth) == [url |-> url, depth |-> depth]
Result(title, content, links) == [title |-> title, content |-> content, links |-> links]
NoTiers == [static |-> "none", rendered |-> "none"]

\* ---------------------------------------------------------------- __init__
\* self.base_domain
base_domain == urlparse(entry_url).netloc

\* self.base_path: the entry URL's path, with a "/" appended unless it ends
\* with one.
slash_ended(path) ==
  IF Len(path) > 0 /\ path[Len(path)] = "/" THEN path ELSE path \o <<"/">>
base_path == slash_ended(urlparse(entry_url).path)

\* setup_selenium, by how webdriver.Chrome(...) ends and whether self.logger
\* exists when the except branch logs: the value of self.driver, or the
\* AttributeError self.logger.error raises.
setup_selenium(chrome_ends, has_logger) ==
  IF chrome_ends = "ok" THEN "live"
  ELSE IF has_logger THEN "none"
  ELSE "AttributeError"

\* WebCrawler.__init__: setup_selenium() runs before self.logger is assigned.
Constructed(d) ==
  IF d = "AttributeError"
    THEN /\ pc' = "init_raised"
         /\ UNCHANGED <<driver, logger>>
    ELSE /\ driver' = d
         /\ logger' = TRUE
         /\ pc' = "constructed"

Construct ==
  /\ pc = "new"
  /\ \E chrome_ends \in {"ok", "WebDriverException"} :
       /\ chrome' = chrome_ends
       /\ Constructed(setup_selenium(chrome_ends, logger))
  /\ UNCHANGED <<entry_url, max_depth, to_visit, normalized_visited, visited_urls,
                 pages, cur, result, tiers, fetch_log, quits, site, probe>>

\* ------------------------------------------------------------ is_valid_url
\* WebCrawler.is_valid_url
valid_parsed(parsed) ==
  IF parsed.scheme \notin {"http", "https"} THEN FALSE
  ELSE IF ~startswith(parsed.path, base_path) THEN FALSE
  ELSE TRUE
is_valid_url(url) == valid_parsed(urlparse(url))

\* ---------------------------------------------------------- _extract_links
\* href.startswith(("javascript:", "mailto:", "tel:"))
skipped_scheme(href) == href.scheme \in {"javascript", "mailto", "tel"}

\* The self-reference test of _extract_links.
self_reference(normalized_url, current_url_normalized) ==
  normalized_url = current_url_normalized

\* One pass of the for loop of _extract_links: what the anchor adds to links.
kept_link(href, normalized_url, current_url_normalized) ==
  IF skipped_scheme(href) THEN <<>>
  ELSE IF self_reference(normalized_url, current_url_normalized) THEN <<>>
  ELSE IF is_valid_url(normalized_url) THEN <<normalized_url>>
  ELSE <<>>
link_of(href, url, current_url_normalized) ==
  kept_link(href, normalize_url(urljoin(url, href)), current_url_normalized)

RECURSIVE links_from(_, _, _)
links_from(anchors, url, current_url_normalized) ==
  IF anchors = <<>> THEN <<>>
  ELSE link_of(Head(anchors), url, current_url_normalized)
       \o links_from(Tail(anchors), url, current_url_normalized)

\* WebCrawler._extract_links over the anchors of the soup, when no href
\* makes urljoin raise.
extract_links(anchors, url) == links_from(anchors, url, normalize_url(url))

\* _extract_links raises ValueError: urljoin meets an unparseable href (the
\* call is outside is_valid_url's try).
extract_links_raises(anchors) ==
  \E k \in DOMAIN anchors : ~skipped_scheme(anchors[k]) /\ parse_raises(anchors[k])

\* How a call self._extract_links(soup, url) ends, for the anchors of soup.
Found(raises, links) == [raises |-> raises, links |-> links]
soup_links(anchors, url) ==
  IF extract_links_raises(anchors) THEN Found(TRUE, <<>>)
  ELSE Found(FALSE, extract_links(anchors, url))

\* -------------------------------------------------------- _extract_content
\* The title _extract_content settles on.
fallback_title(doc) ==
  IF doc.title \in {"blank", "text"}
    THEN (IF doc.title = "text" THEN TitleText ELSE "")
  ELSE IF doc.h1 # "absent"
    THEN (IF doc.h1 = "text" THEN TitleText ELSE "")
  ELSE "Untitled Page"

\* The content _extract_content settles on.
fallback_content(doc) ==
  IF doc.cleaned THEN "text"
  ELSE IF doc.tags THEN "text"
  ELSE IF doc.body THEN "text"
  ELSE ""

\* _extract_links on the soup once nav, footer, header, script and style have
\* been decomposed, found being what _extract_links makes of the whole soup:
\* anchors inside the decomposed elements are gone.
remaining_links(doc, found) == IF doc.nav_links THEN Found(FALSE, <<>>) ELSE found

\* WebCrawler._extract_content: a record whose outcome is "return" (with
\* title, content, links) or "raise".
content_with(doc, links) ==
  IF links.raises
    THEN [outcome |-> "raise", title |-> None, content |-> None, links |-> <<>>]
    ELSE [outcome |-> "return", title |-> fallback_title(doc),
          content |-> fallback_content(doc), links |-> links.links]
extract_content(doc, found) == content_with(doc, remaining_links(doc, found))

\* -------------------------------------------------------- get_page_content
Returned(title, content, links) ==
  [outcome |-> "return", title |-> title, content |-> content, links |-> links]
Raised(exception) ==
  [outcome |-> exception, title |-> None, content |-> None, links |-> <<>>]

\* The static tier (the try block): get is how requests.get and
\* raise_for_status end, downloaded whether trafilatura.fetch_url returned the
\* document, doc the document served and found what _extract_links makes of
\* its anchors. requests.get is called on both branches; the title line of
\* the first branch raises AttributeError on a <title> without a string.
static_tier(get, downloaded, doc, found) ==
  IF get = "RequestException" THEN Raised("RequestException")
  ELSE IF downloaded /\ doc.structured
    THEN (IF doc.title = "nostring" \/ found.raises
            THEN Raised("raise")
            ELSE Returned(CASE doc.title = "absent" -> "Untitled Page"
                            [] doc.title = "blank" -> ""
                            [] OTHER -> TitleText,
                          "text", found.links))
  ELSE extract_content(doc, found)

\* The rendered tier (the except requests.RequestException branch): render is
\* how driver.get and the wait end, doc the rendered page source and found
\* what _extract_links makes of its anchors. "skip" is the outcome when
\* self.driver is falsy.
rendered_tier(has_driver, render, doc, found) ==
  IF ~has_driver THEN [Returned(None, None, <<>>) EXCEPT !.outcome = "skip"]
  ELSE IF render = "WebDriverException"
    THEN [Returned(None, None, <<>>) EXCEPT !.outcome = "WebDriverException"]
  ELSE IF doc.structured
    THEN (IF found.raises
            THEN Raised("raise")
            ELSE Returned(IF doc.title = "text" THEN TitleText ELSE "Untitled Page",
                          "text", found.links))
  ELSE extract_content(doc, found)

\* ------------------------------------------------------------------- crawl
\* The pop-time test without the visited check, and without the depth check.
should_skip_depth_only(depth, normalized_url) == depth > max_depth
should_skip_visited_only(depth, normalized_url) == normalized_url \in normalized_visited

\* The pop-time test: the target is dropped.
should_skip(depth, normalized_url) ==
  depth > max_depth \/ normalized_url \in normalized_visited

\* The Page test passing whatever get_page_content returned.
emits_page_always(title, content) == TRUE

\* A Page is appended for the result.
emits_page(title, content) == Truthy(title) /\ Truthy(content)

\* The depth test off by one.
may_expand_at_max(depth) == depth <= max_depth

\* The links of the page are looked at.
may_expand(depth) == depth < max_depth

\* The enqueue-time test passing every link.
enqueues_always(link) == TRUE

\* A link is appended to to_visit.
enqueues(link) == normalize_url(link) \notin normalized_visited

\* The targets the for loop over links appends.
RECURSIVE new_targets(_, _)
new_targets(links, depth) ==
  IF links = <<>> THEN <<>>
  ELSE (IF enqueues(Head(links)) THEN <<Target(Head(links), depth + 1)>> ELSE <<>>)
       \o new_targets(Tail(links), depth)

\* ------------------------------------------------------------ the web served
\* site = "any": every page serves any anchors and any response. The guide
\* scenario (site = "guide" or "guide_titled"): the entry page serves
\* GuideAnchors, no href is unparseable, and every call of get_page_content
\* ends with non-empty content ("guide_titled": and a non-empty title), by
\* the static tier or, after a failed request, by the renderer.
serves_content(r) ==
  /\ r.outcome = "return"
  /\ Truthy(r.content)
  /\ site = "guide_titled" => Truthy(r.title)

static_served ==
  IF site = "any" THEN StaticResponses
  ELSE {s \in StaticResponses :
          \/ s.get = "RequestException"
          \/ serves_content(static_tier(s.get, s.downloaded, s.doc, Found(FALSE, <<>>)))}

rendered_served ==
  IF site = "any" THEN RenderedResponses
  ELSE {s \in RenderedResponses :
          serves_content(rendered_tier(TRUE, s.render, s.doc, Found(FALSE, <<>>)))}

anchors_served(url) ==
  IF site = "any" THEN HrefLists
  ELSE IF url = GuideUrl THEN {GuideAnchors}
  ELSE {a \in HrefLists : ~extract_links_raises(a)}

NoUrl == Url("", "", <<>>)

\* No call of normalize_url made on its own.
Probe(url, other, key, other_key, rekey, returned) ==
  [url |-> url, other |-> other, key |-> key, other_key |-> other_key,
   rekey |-> rekey, returned |-> returned]
NoProbe == Probe(NoUrl, NoUrl, NoUrl, NoUrl, NoUrl, {})

\* A crawler object before __init__ has run.
Fresh ==
  /\ logger = FALSE
  /\ driver = "unset"
  /\ pc = "new"
  /\ to_visit = <<>>
  /\ normalized_visited = {}
  /\ visited_urls = {}
  /\ pages = <<>>
  /\ cur = Target(NoUrl, 0)
  /\ result = Result(None, None, <<>>)
  /\ tiers = NoTiers
  /\ fetch_log = <<>>
  /\ chrome = "none"
  /\ quits = 0

Init ==
  /\ site = "any"
  /\ probe = NoProbe
  /\ entry_url \in EntryUrls
  /\ max_depth \in (-1)..MaxDepth
  /\ Fresh

\* The guide scenario: WebCrawler("https://docs.example.com/g/", 1).
InitScenario ==
  /\ site \in {"guide", "guide_titled"}
  /\ probe = NoProbe
  /\ entry_url = GuideUrl
  /\ max_depth = 1
  /\ Fresh

\* crawl(), up to the loop.
CrawlStart ==
  /\ pc = "constructed"
  /\ pages' = <<>>
  /\ to_visit' = <<Target(entry_url, 0)>>
  /\ normalized_visited' = {}
  /\ pc' = "loop"
  /\ UNCHANGED <<entry_url, max_depth, logger, driver, visited_urls, cur, result,
                 tiers, fetch_log, chrome, quits, site, probe>>

\* One pass of the loop up to the call of get_page_content, the call
\* included. title, content, links and the tier history of the pass before
\* are dead here: they are cleared.
Popped(url, depth, normalized_url) ==
  /\ cur' = Target(url, depth)
  /\ IF should_skip(depth, normalized_url)
       THEN UNCHANGED <<normalized_visited, visited_urls, fetch_log, pc>>
       ELSE /\ normalized_visited' = normalized_visited \cup {normalized_url}
            /\ visited_urls' = visited_urls \cup {url}
            /\ fetch_log' = Append(fetch_log, Target(url, depth))
            /\ pc' = "static"

\* The pop leaving the head of the queue in place.
PopKeepingHead ==
  /\ pc = "loop"
  /\ to_visit # <<>>
  /\ to_visit' = to_visit
  /\ Popped(Head(to_visit).url, Head(to_visit).depth, normalize_url(Head(to_visit).url))
  /\ result' = Result(None, None, <<>>)
  /\ tiers' = NoTiers
  /\ UNCHANGED <<entry_url, max_depth, logger, driver, pages, chrome, quits, site, probe>>

\* The pop taking the tail of the queue instead of its head.
PopLast ==
  /\ pc = "loop"
  /\ to_visit # <<>>
  /\ to_visit' = SubSeq(to_visit, 1, Len(to_visit) - 1)
  /\ Popped(to_visit[Len(to_visit)].url, to_visit[Len(to_visit)].depth,
            normalize_url(to_visit[Len(to_visit)].url))
  /\ result' = Result(None, None, <<>>)
  /\ tiers' = NoTiers
  /\ UNCHANGED <<entry_url, max_depth, logger, driver, pages, chrome, quits, site, probe>>

Pop ==
  /\ pc = "loop"
  /\ to_visit # <<>>
  /\ to_visit' = Tail(to_visit)
  /\ Popped(Head(to_visit).url, Head(to_visit).depth, normalize_url(Head(to_visit).url))
  /\ result' = Result(None, None, <<>>)
  /\ tiers' = NoTiers
  /\ UNCHANGED <<entry_url, max_depth, logger, driver, pages, chrome, quits, site, probe>>

\* The try block falling back to the renderer on empty content too.
StaticEndsRetryingEmpty(r) ==
  /\ tiers' = [static |-> r.outcome, rendered |-> "none"]
  /\ result' = IF r.outcome = "return" THEN Result(r.title, r.content, r.links)
               ELSE result
  /\ pc' = CASE r.outcome = "return" /\ Truthy(r.content) -> "record"
             [] r.outcome \in {"return", "RequestException"} -> "fallback"
             [] OTHER -> "raised"

\* get_page_content, the try block: r is how it ends.
StaticEnds(r) ==
  /\ tiers' = [static |-> r.outcome, rendered |-> "none"]
  /\ result' = IF r.outcome = "return" THEN Result(r.title, r.content, r.links)
               ELSE result
  /\ pc' = CASE r.outcome = "return" -> "record"
             [] r.outcome = "RequestException" -> "fallback"
             [] OTHER -> "raised"

StaticServes(found) ==
  \E s \in static_served : StaticEnds(static_tier(s.get, s.downloaded, s.doc, found))

StaticFetch ==
  /\ pc = "static"
  /\ \E anchors \in anchors_served(cur.url) : StaticServes(soup_links(anchors, cur.url))
  /\ UNCHANGED <<entry_url, max_depth, logger, driver, to_visit, normalized_visited,
                 visited_urls, pages, cur, fetch_log, chrome, quits, site, probe>>

\* get_page_content, the except requests.RequestException branch: r is how
\* it ends.
RenderedEnds(r) ==
  /\ tiers' = [tiers EXCEPT !.rendered = r.outcome]
  /\ result' = IF r.outcome = "raise" THEN result
               ELSE Result(r.title, r.content, r.links)
  /\ pc' = IF r.outcome = "raise" THEN "raised" ELSE "record"

RenderedServes(found) ==
  \E s \in rendered_served :
    RenderedEnds(rendered_tier(driver = "live", s.render, s.doc, found))

RenderedFetch ==
  /\ pc = "fallback"
  /\ \E anchors \in anchors_served(cur.url) : RenderedServes(soup_links(anchors, cur.url))
  /\ UNCHANGED <<entry_url, max_depth, logger, driver, to_visit, normalized_visited,
                 visited_urls, pages, cur, fetch_log, chrome, quits, site, probe>>

\* The rest of the pass: the page and its links.
Record ==
  /\ pc = "record"
  /\ IF emits_page(result.title, result.content)
       THEN /\ pages' = Append(pages, [url |-> cur.url, title |-> result.title,
                                       content |-> result.content])
            /\ to_visit' = IF may_expand(cur.depth)
                             THEN to_visit \o new_targets(result.links, cur.depth)
                             ELSE to_visit
       ELSE UNCHANGED <<pages, to_visit>>
  /\ pc' = "loop"
  /\ UNCHANGED <<entry_url, max_depth, logger, driver, normalized_visited,
                 visited_urls, cur, result, tiers, fetch_log, chrome, quits, site, probe>>

\* crawl(), after the loop.
Finish ==
  /\ pc = "loop"
  /\ to_visit = <<>>
  /\ IF driver = "live"
       THEN driver' = "quit" /\ quits' = quits + 1
       ELSE UNCHANGED <<driver, quits>>
  /\ pc' = "done"
  /\ UNCHANGED <<entry_url, max_depth, logger, to_visit, normalized_visited,
                 visited_urls, pages, cur, result, tiers, fetch_log, chrome, site, probe>>

Next ==
  \/ Construct
  \/ CrawlStart
  \/ Pop
  \/ StaticFetch
  \/ RenderedFetch
  \/ Record
  \/ Finish

Spec == Init /\ [][Next]_vars

\* The program keeps running: it is one thread, and every call the model's
\* steps stand for returns or raises, so a step that can be taken is taken.
SpecLive == Init /\ [][Next]_vars /\ WF_vars(Next)

\* ------------------------------------------------- normalize_url on its own
\* Longest path?query of the URLs normalize_url is called with.
MaxRest == 3

\* The URLs normalize_url is called with: https://docs.example.com followed
\* by up to MaxRest characters that are empty or start a path or a query,
\* followed by no fragment, an empty one or "#g"; and the URLs the hrefs of
\* the modelled web stand for.
NormChars == {"/", "g", "G", ";", "?"}
NormFragments == {<<>>, <<"#">>, <<"#", "g">>}
NormRests ==
  {r \in UNION {[1..n -> NormChars] : n \in 0..MaxRest} :
     r = <<>> \/ r[1] \in {"/", "?"}}
NormUrls ==
  {Url("https", DocsHost, r \o f) : r \in NormRests, f \in NormFragments}
  \cup {GuideUrl, IntroVariant, ParamsHref, OtherX, OtherGuideX}

\* The parts of a URL string as written: the path is what precedes the
\* first "?" or "#", the query part what lies between the path and the "#".
unfragmented(url) == split_at(url.rest, find(url.rest, "#", 1))[1]
written_path(url) == split_at(unfragmented(url), find(unfragmented(url), "?", 1))[1]
written_query(url) ==
  SubSeq(unfragmented(url), Len(written_path(url)) + 1, Len(unfragmented(url)))

\* Two URLs differ at most in their fragment, in trailing slashes on the
\* path and in the letter case of the path.
variants(u, v) ==
  /\ u.scheme = v.scheme
  /\ u.netloc = v.netloc
  /\ written_query(u) = written_query(v)
  /\ rstrip(lower(written_path(u)), "/") = rstrip(lower(written_path(v)), "/")

\* A constructed crawler, about to call self.normalize_url on a URL and on
\* a variant of it.
InitNormalize ==
  /\ site = "any"
  /\ entry_url = GuideUrl
  /\ max_depth = 0
  /\ Fresh
  /\ \E u \in NormUrls : \E v \in {w \in NormUrls : variants(u, w)} :
       probe = Probe(u, v, NoUrl, NoUrl, NoUrl, {})

crawl_vars == <<entry_url, max_depth, logger, driver, pc, to_visit, normalized_visited,
                visited_urls, pages, cur, result, tiers, fetch_log, chrome, quits, site>>

\* key = self.normalize_url(url)
NormalizeUrl ==
  /\ probe.url # NoUrl
  /\ "key" \notin probe.returned
  /\ probe' = [probe EXCEPT !.key = normalize_url(probe.url),
                            !.returned = @ \cup {"key"}]
  /\ UNCHANGED crawl_vars

\* other_key = self.normalize_url(other)
NormalizeOther ==
  /\ probe.url # NoUrl
  /\ "other_key" \notin probe.returned
  /\ probe' = [probe EXCEPT !.other_key = normalize_url(probe.other),
                            !.returned = @ \cup {"other_key"}]
  /\ UNCHANGED crawl_vars

\* rekey = self.normalize_url(key)
NormalizeKey ==
  /\ "key" \in probe.returned
  /\ "rekey" \notin probe.returned
  /\ probe' = [probe EXCEPT !.rekey = normalize_url(probe.key),
                            !.returned = @ \cup {"rekey"}]
  /\ UNCHANGED crawl_vars

NextNormalize ==
  \/ NormalizeUrl
  \/ NormalizeOther
  \/ NormalizeKey

SpecNormalize == InitNormalize /\ [][NextNormalize]_vars

\* The crawl of the guide scenario.
SpecScenario == InitScenario /\ [][Next]_vars

\* ------------------------------------------------------------------ claims
\* The Pages appended for a URL.
PagesOf(url) == {k \in DOMAIN pages : pages[k].url = url}

\* The pass that has just ended fetched cur (it did not drop it at pop time).
PassDone == pc \in {"loop", "done"} /\ tiers # NoTiers

\* The pass that has just ended dropped cur at pop time.
Dropped == pc = "loop" /\ tiers = NoTiers /\ cur.url # NoUrl

IntroUrl == Url("https", DocsHost, <<"/", "g", "/", "i">>)

\* C1: in one run of crawl() no two calls of get_page_content are for URLs
\* with the same normalized form, whatever the pages link to.
C1_NoUrlFetchedTwice ==
  \A i, j \in DOMAIN fetch_log :
    normalize_url(fetch_log[i].url) = normalize_url(fetch_log[j].url) => i = j

\* C1's case: a queued target whose normalized URL had been fetched already
\* was popped, within the depth bound, and dropped.
C1_Witness ==
  /\ Dropped
  /\ cur.depth <= max_depth
  /\ \E i \in DOMAIN fetch_log :
       normalize_url(fetch_log[i].url) = normalize_url(cur.url)

\* C2: a target with depth > max_depth is never passed to get_page_content;
\* it is dropped at pop time, is not marked visited and produces no Page:
\* the visited URLs and the Pages are those of fetched targets, all of which
\* are within the depth bound.
C2_DepthBound ==
  /\ \A i \in DOMAIN fetch_log : fetch_log[i].depth <= max_depth
  /\ normalized_visited = {normalize_url(fetch_log[i].url) : i \in DOMAIN fetch_log}
  /\ visited_urls = {fetch_log[i].url : i \in DOMAIN fetch_log}
  /\ \A k \in DOMAIN pages : \E i \in DOMAIN fetch_log : fetch_log[i].url = pages[k].url
  /\ (Dropped /\ cur.depth > max_depth) =>
       /\ normalize_url(cur.url) \notin normalized_visited
       /\ PagesOf(cur.url) = {}

\* C2's case: a target deeper than max_depth was popped and dropped.
C2_Witness == Dropped /\ cur.depth > max_depth

\* C3: every link that is enqueued is on the entry URL's domain and has a
\* path under the base path (with a root entry URL: is on the entry URL's
\* domain).
C3_OnlyInScopeEnqueued ==
  \A i \in DOMAIN to_visit :
    \/ to_visit[i] = Target(entry_url, 0)
    \/ /\ urlparse(to_visit[i].url).netloc = base_domain
       /\ startswith(urlparse(to_visit[i].url).path, base_path)

\* C4: with max_depth = 0 only the entry URL is fetched, once, and no link is
\* ever pushed onto the queue.
C4_DepthZeroFetchesEntryOnly ==
  max_depth = 0 =>
    /\ fetch_log \in {<<>>, <<Target(entry_url, 0)>>}
    /\ to_visit \in {<<>>, <<Target(entry_url, 0)>>}
    /\ pc \in {"done", "raised"} => fetch_log = <<Target(entry_url, 0)>>

\* C4's case: a crawl with max_depth = 0 has ended and the entry page had
\* in-scope links.
C4_Witness ==
  /\ max_depth = 0
  /\ pc = "done"
  /\ Len(pages) = 1
  /\ Len(result.links) = MaxLinks

\* C5: link extraction never returns a link whose normalized form equals the
\* normalized form of the URL of the page it was found on.
C5_SelfLinkNeverReturned ==
  pc = "record" =>
    \A k \in DOMAIN result.links :
      normalize_url(result.links[k]) # normalize_url(cur.url)

\* The result of the guide scenario: Pages for /g/ and /g/i only, each URL
\* fetched once.
GuideResult ==
  /\ [k \in DOMAIN pages |-> pages[k].url] = <<GuideUrl, IntroUrl>>
  /\ fetch_log = <<Target(GuideUrl, 0), Target(IntroUrl, 1)>>

\* C6: in the guide scenario (entry https://docs.example.com/g/, max_depth 1,
\* the entry page linking to /g/i, to https://other.com/x and to itself, every
\* fetch ending with non-empty content) the crawl returns exactly two Pages,
\* for /g/ and /g/i, and each of the two URLs is fetched exactly once.
C6_GuideScenario == pc = "done" => GuideResult

\* C7: a URL whose static fetch failed with a request error (non-2xx status,
\* network error, timeout) and which the renderer session rendered with
\* non-empty content went through the rendered tier after the static tier
\* and has exactly one Page.
C7_FallbackYieldsOnePage ==
  (PassDone /\ tiers.static = "RequestException" /\ tiers.rendered = "return"
     /\ Truthy(result.content))
  => Cardinality(PagesOf(cur.url)) = 1

\* C8 (as stated): with a renderer session, the rendered fetch is also tried
\* when the static tier returned empty content.
C8_Original ==
  (pc = "record" /\ driver = "live" /\ tiers.static = "return"
     /\ ~Truthy(result.content))
  => tiers.rendered # "none"

\* C8 (amended): the rendered fetch is tried exactly when the static tier
\* failed with a request error; a URL whose static tier returned empty
\* content is not rendered and has no Page.
C8_RenderedOnlyAfterRequestError ==
  /\ pc \in {"record", "loop", "done", "raised"} =>
       (tiers.rendered # "none" <=> tiers.static = "RequestException")
  /\ (PassDone /\ tiers.static = "return" /\ ~Truthy(result.content))
       => PagesOf(cur.url) = {}

\* C8's case: with a renderer session, the static tier returned empty content
\* and the pass ended without the renderer being tried.
C8_Witness ==
  /\ pc = "loop"
  /\ driver = "live"
  /\ tiers = [static |-> "return", rendered |-> "none"]
  /\ result.content = ""
  /\ PagesOf(cur.url) = {}

\* C9: a renderer session that was created is torn down exactly once on every
\* way crawl() ends, an exception escaping get_page_content included.
C9_TornDownOnce ==
  (chrome = "ok" /\ pc \in {"done", "raised"}) => (quits = 1 /\ driver = "quit")

\* C10: when webdriver.Chrome fails, construction succeeds with no driver.
C10_ConstructionSurvives ==
  chrome = "WebDriverException" => (pc # "init_raised" /\ driver = "none")

\* Both tiers of the fetch of cur failed: a request error of the static tier,
\* then a renderer error or timeout, or no renderer.
BothTiersFailed ==
  /\ tiers.static = "RequestException"
  /\ tiers.rendered \in {"WebDriverException", "skip"}

\* The calls of get_page_content for the normalized form of url.
FetchesOf(url) ==
  {i \in DOMAIN fetch_log : normalize_url(fetch_log[i].url) = normalize_url(url)}

\* C11: when both fetch tiers fail for a URL, get_page_content returns
\* (None, None, []) without raising, the URL's normalized form is in the
\* visited set, no Page is appended for it, it has been fetched once only
\* (every fetched URL stays visited, so it is never fetched again), and the
\* crawl goes on with the loop.
C11_BothTiersFail ==
  /\ BothTiersFailed =>
       /\ pc \in {"record", "loop", "done"}
       /\ result = Result(None, None, <<>>)
       /\ normalize_url(cur.url) \in normalized_visited
       /\ PagesOf(cur.url) = {}
       /\ Cardinality(FetchesOf(cur.url)) = 1
  /\ \A i \in DOMAIN fetch_log :
       /\ normalize_url(fetch_log[i].url) \in normalized_visited
       /\ Cardinality(FetchesOf(fetch_log[i].url)) = 1

\* C11's case: both tiers failed for a URL, its pass has ended and the loop
\* has targets left to process.
C11_Witness ==
  /\ BothTiersFailed
  /\ pc = "loop"
  /\ to_visit # <<>>
  /\ PagesOf(cur.url) = {}

\* C12: no fault raised while fetching or extracting one page leaves
\* get_page_content, so crawl() never ends by an exception.
C12_FaultsSwallowed == pc # "raised"

\* C13: whatever the pages link to (cycles included) and whatever max_depth,
\* a crawl() that has entered its loop ends: it finds the queue empty and
\* returns, unless a fetch raised instead of returning.
C13_CrawlTerminates == (pc = "loop") ~> (pc \in {"done", "raised"})

\* C13's case: crawl() has returned after a run in which the last target
\* popped was a link back to a URL fetched before (a cycle of the link graph).
C13_Witness ==
  /\ pc = "done"
  /\ tiers = NoTiers
  /\ cur.depth <= max_depth
  /\ Len(fetch_log) >= 2
  /\ FetchesOf(cur.url) # {}

\* C14: normalize_url gives two URLs that differ only in their fragment, in
\* trailing slashes on the path or in the letter case of the path the same
\* key (so that at most one of them is fetched in a crawl).
C14_VariantsCollapse ==
  {"key", "other_key"} \subseteq probe.returned => probe.key = probe.other_key

\* C15: normalize_url(normalize_url(u)) = normalize_url(u) for every URL u.
C15_NormalizeIdempotent ==
  "rekey" \in probe.returned => probe.rekey = probe.key

\* C16 (as stated): the queue never holds two targets with the same
\* normalized URL.
C16_Original ==
  \A i, j \in DOMAIN to_visit :
    normalize_url(to_visit[i].url) = normalize_url(to_visit[j].url) => i = j

\* The targets a step appends to the queue.
Pushed == SubSeq(to_visit', Len(to_visit) + 1, Len(to_visit'))

\* C16 (amended): a URL can be pushed more than once; a target is pushed
\* only by the pass of a fetched page, at the tail, one level below that page
\* and while its normalized URL is not in the visited set, and of the queued
\* targets with one normalized URL at most one is fetched.
C16_PushedWhileUnvisited ==
  /\ [][/\ Len(to_visit') > Len(to_visit) =>
             /\ pc = "record" \/ pc = "constructed"
             /\ SubSeq(to_visit', 1, Len(to_visit)) = to_visit
        /\ pc = "record" =>
             \A k \in DOMAIN Pushed :
               /\ normalize_url(Pushed[k].url) \notin normalized_visited
               /\ Pushed[k].depth = cur.depth + 1]_vars
  /\ [](\A i \in DOMAIN fetch_log : Cardinality(FetchesOf(fetch_log[i].url)) = 1)

\* C16's case: the queue holds two targets with the same normalized URL.
C16_Witness ==
  \E i, j \in DOMAIN to_visit :
    /\ i < j
    /\ normalize_url(to_visit[i].url) = normalize_url(to_visit[j].url)

\* C17: after a URL popped at depth d < max_depth has been fetched and
\* extracted, every link returned for it whose normalized form is not visited
\* is in the queue as (link, d+1), whether or not a Page was appended for the
\* URL (empty content with links found, for one).
C17_LinksPushedWithoutPage ==
  (PassDone /\ pc = "loop" /\ cur.depth < max_depth) =>
    \A k \in DOMAIN result.links :
      normalize_url(result.links[k]) \notin normalized_visited =>
        \E i \in DOMAIN to_visit : to_visit[i] = Target(result.links[k], cur.depth + 1)

\* The depth a fetched URL was fetched at.
FetchDepth(url) == fetch_log[CHOOSE i \in DOMAIN fetch_log : fetch_log[i].url = url].depth

\* C18: crawl() works breadth first: the depths of the successive calls of
\* get_page_content never decrease, the queue is ordered by depth and holds
\* no target above the depth of the URL fetched last (so no depth-(D+1)
\* target is fetched while a depth-D target waits), and the Pages are in
\* order of non-decreasing depth.
C18_BreadthFirst ==
  /\ \A i, j \in DOMAIN fetch_log : i < j => fetch_log[i].depth <= fetch_log[j].depth
  /\ \A i, j \in DOMAIN to_visit : i < j => to_visit[i].depth <= to_visit[j].depth
  /\ \A i \in DOMAIN to_visit :
       fetch_log # <<>> => fetch_log[Len(fetch_log)].depth <= to_visit[i].depth
  /\ \A i, j \in DOMAIN pages :
       i < j => FetchDepth(pages[i].url) <= FetchDepth(pages[j].url)

\* C18's case: the queue held targets of depth 1 and of depth 2, and the
\* depth-1 target is the one being fetched, as the third fetch of the run.
C18_Witness ==
  /\ pc = "static"
  /\ cur.depth = 1
  /\ Len(fetch_log) = 3
  /\ \E i \in DOMAIN to_visit : to_visit[i].depth = 2

\* The hrefs _extract_links takes a scope decision for on the page at url:
\* those it neither skips by scheme nor fails to join, and that are not links
\* of the page to itself.
ScopeDecided(url) ==
  {h \in Hrefs : /\ ~skipped_scheme(h)
                 /\ ~parse_raises(h)
                 /\ ~self_reference(normalize_url(urljoin(url, h)), normalize_url(url))}

\* C19: the scope decision for a discovered link is the prefix check of the
\* link's raw path against the base path: for the page just extracted, a link
\* is kept exactly when the path of the joined, un-normalized URL starts with
\* the base path, so normalizing the path does not change the decision.
C19_ScopeOnRawPath ==
  pc = "record" =>
    \A h \in ScopeDecided(cur.url) :
      (link_of(h, cur.url, normalize_url(cur.url)) # <<>>) = is_valid_url(urljoin(cur.url, h))

\* C20: every in-scope URL within max_depth links of the entry URL, through
\* pages that each produced a Page, is fetched exactly once by the end of
\* crawl(), at the depth of its shortest chain. In the guide scenario the
\* entry page links to /g/i and max_depth is 1: once the entry URL has its
\* Page, /g/i is fetched exactly once, at depth 1.
C20_ReachableFetchedOnce ==
  (pc = "done" /\ PagesOf(GuideUrl) # {}) =>
    /\ Cardinality(FetchesOf(IntroUrl)) = 1
    /\ \A i \in FetchesOf(IntroUrl) : fetch_log[i].depth = 1

====
